---- MODULE Spec2Model ----
(***************************************************************************)
(* Model of src/app/list_store.rs: ListStore<GType>, a typed wrapper over  *)
(* gio::ListStore, its ListDiff dispatch and its strong/weak handles.      *)
(*                                                                         *)
(* Machine integers are kept at their width.  A u32 is a pair of 16-bit    *)
(* limbs [hi, lo] (value hi * 2^16 + lo) and a usize (64-bit target) is a  *)
(* pair of u32 [hi, lo], so that 0 - 1, u32::MAX + 1 and `i as u32` are    *)
(* computed as the machine computes them.                                  *)
(*                                                                         *)
(* gio::ListStore is the native collection the wrapper calls into: its     *)
(* item() is None past the end, and its splice, insert and remove check    *)
(* their position first, log a critical warning and return without         *)
(* mutating when the check fails, and otherwise emit one items-changed     *)
(* notification.  A panic or an abort ends the process.                    *)
(***************************************************************************)
EXTENDS Integers, Sequences, FiniteSets, TLC

\* ------------------------------------------------------------------ bounds
NumElems == 2
MaxLen == 4
MaxIn == 3
MaxHandles == 2

Elem == 1..NumElems
\* u32 indices larger than this are represented only by u32::MAX
SmallIdx == 0..(MaxLen + 1)

VARIABLES
  items,            \* contents of the native gio::ListStore
  refcount,         \* strong reference count of the native object
  nStrong,          \* live ListStore<GType> wrappers of the collection
  nWeak,            \* live WeakListStore<GType> wrappers of the collection
  overflow_checks,  \* build: arithmetic overflow panics (debug) or wraps (release)
  fatal_criticals,  \* environment: a GLib critical warning aborts the process
  call,             \* the last operation: arguments, contents before, outcome
  it                \* the iterator obtained from iter(), if any

vars == <<items, refcount, nStrong, nWeak, overflow_checks, fatal_criticals, call, it>>

\* ------------------------------------------------------- machine integers
Limb == 2^16

U32(n) == [hi |-> n \div Limb, lo |-> n % Limb]

U32Max == [hi |-> Limb - 1, lo |-> Limb - 1]

Lt32(a, b) == a.hi < b.hi \/ (a.hi = b.hi /\ a.lo < b.lo)

Le32(a, b) == a = b \/ Lt32(a, b)

\* a + b on u32: the wrapped value and whether the addition overflowed
Add32(a, b) ==
  LET s == a.lo + b.lo
      h == a.hi + b.hi + (s \div Limb)
  IN  [val |-> [hi |-> h % Limb, lo |-> s % Limb], overflow |-> h >= Limb]

\* a - b on u32: the wrapped value and whether the subtraction overflowed
Sub32(a, b) ==
  LET borrow == IF a.lo < b.lo THEN 1 ELSE 0
      h == a.hi - b.hi - borrow
  IN  [val |-> [hi |-> (h + Limb) % Limb, lo |-> (a.lo - b.lo + Limb) % Limb],
       overflow |-> h < 0]

\* the value of a u32 known to be small (at most the length of the collection)
ToNat(a) == a.hi * Limb + a.lo

\* `x as usize` for a u32 x
AsUsize(x) == [hi |-> U32(0), lo |-> x]

\* `i as u32` for a usize i: the low 32 bits
AsU32(i) == i.lo

Lt64(a, b) == Lt32(a.hi, b.hi) \/ (a.hi = b.hi /\ Lt32(a.lo, b.lo))

None == <<>>

Some(x) == <<x>>

\* ------------------------------------------------- native gio::ListStore
\* A native state is [items, notes, crit]: the contents, the items-changed
\* notifications emitted so far in the current call (each with the contents a
\* subscriber sees when it is emitted), and whether a critical warning was
\* logged (a g_return_if_fail precondition of the native call failed).

store_n_items(ns) == U32(Len(ns.items))

store_item(ns, position) ==
  IF Lt32(position, store_n_items(ns))
  THEN Some(ns.items[ToNat(position) + 1])
  ELSE None

items_changed(ns, position, removed, added) ==
  [ns EXCEPT !.notes = Append(@, [position |-> position, removed |-> removed,
                                  added |-> added, seen |-> ns.items])]

store_splice(ns, position, n_removals, additions) ==
  LET end == Add32(position, n_removals)
  IN  IF end.overflow \/ ~Le32(end.val, store_n_items(ns))
      THEN [ns EXCEPT !.crit = TRUE]
      ELSE LET p == ToNat(position)
               r == ToNat(n_removals)
               new == SubSeq(ns.items, 1, p) \o additions
                        \o SubSeq(ns.items, p + r + 1, Len(ns.items))
           IN  items_changed([ns EXCEPT !.items = new], position, n_removals,
                             U32(Len(additions)))

store_insert(ns, position, item) ==
  IF ~Le32(position, store_n_items(ns))
  THEN [ns EXCEPT !.crit = TRUE]
  ELSE LET p == ToNat(position)
           new == SubSeq(ns.items, 1, p) \o <<item>>
                    \o SubSeq(ns.items, p + 1, Len(ns.items))
       IN  items_changed([ns EXCEPT !.items = new], position, U32(0), U32(1))

store_remove(ns, position) ==
  IF ~Lt32(position, store_n_items(ns))
  THEN [ns EXCEPT !.crit = TRUE]
  ELSE LET p == ToNat(position)
           new == SubSeq(ns.items, 1, p) \o SubSeq(ns.items, p + 2, Len(ns.items))
       IN  items_changed([ns EXCEPT !.items = new], position, U32(1), U32(0))

\* ------------------------------------------------------ ListStore<GType>
\* Every method maps a native state to [ns, outcome, ret]: the native state
\* it leaves, "returned" or "panic", and the value returned (None / Some).

Returned(ns, ret) == [ns |-> ns, outcome |-> "returned", ret |-> ret]

Panic(ns) == [ns |-> ns, outcome |-> "panic", ret |-> None]

\* extend that splices at the front instead of at n_items
extend_at_front(ns, elements) ==
  Returned(store_splice(ns, U32(0), U32(0), elements), None)

extend(ns, elements) ==
  Returned(store_splice(ns, store_n_items(ns), U32(0), elements), None)

\* replace_all that forgets to remove the current elements
replace_all_no_removal(ns, elements) ==
  Returned(store_splice(ns, U32(0), U32(0), elements), None)

replace_all(ns, elements) ==
  Returned(store_splice(ns, U32(0), store_n_items(ns), elements), None)

\* swap that writes the two elements back in their old order
swap_same_order(ns, ia, ib) ==
  LET a == store_item(ns, ia)
      b == store_item(ns, ib)
  IN  IF a = None THEN Returned(ns, None)
      ELSE IF b = None THEN Returned(ns, None)
      ELSE Returned(store_splice(ns, ia, U32(2), <<a[1], b[1]>>), Some("unit"))

\* swap done as a remove followed by an insert: two native mutations
swap_remove_insert(ns, ia, ib) ==
  LET a == store_item(ns, ia)
      b == store_item(ns, ib)
  IN  IF a = None THEN Returned(ns, None)
      ELSE IF b = None THEN Returned(ns, None)
      ELSE Returned(store_insert(store_remove(ns, ia), ib, a[1]), Some("unit"))

swap(ns, ia, ib) ==
  LET a == store_item(ns, ia)
      b == store_item(ns, ib)
  IN  IF a = None THEN Returned(ns, None)
      ELSE IF b = None THEN Returned(ns, None)
      ELSE Returned(store_splice(ns, ia, U32(2), <<b[1], a[1]>>), Some("unit"))

\* move up with a saturating predecessor: index 0 swaps (0, 0)
move_up_saturating(ns, index, checks) ==
  LET d == Sub32(index, U32(1))
      ia == IF d.overflow THEN U32(0) ELSE d.val
      r == swap(ns, ia, index)
  IN  IF r.ret = None THEN Panic(r.ns) ELSE Returned(r.ns, None)

move_up_unchecked(ns, index, checks) ==
  LET d == Sub32(index, U32(1))
  IN  IF d.overflow /\ checks THEN Panic(ns)
      ELSE LET r == swap(ns, d.val, index)
           IN  IF r.ret = None THEN Panic(r.ns) ELSE Returned(r.ns, None)

\* move down that ignores the result of swap instead of unwrapping it
move_down_ignoring(ns, index, checks) ==
  LET s == Add32(index, U32(1))
  IN  IF s.overflow /\ checks THEN Panic(ns)
      ELSE Returned(swap(ns, index, s.val).ns, None)

move_down_unchecked(ns, index, checks) ==
  LET s == Add32(index, U32(1))
  IN  IF s.overflow /\ checks THEN Panic(ns)
      ELSE LET r == swap(ns, index, s.val)
           IN  IF r.ret = None THEN Panic(r.ns) ELSE Returned(r.ns, None)

update(ns, diff, checks) ==
  CASE diff.tag = "Set" -> replace_all(ns, diff.elements)
    [] diff.tag = "Append" -> extend(ns, diff.elements)
    [] diff.tag = "MoveDown" -> move_down_unchecked(ns, AsU32(diff.i), checks)
    [] diff.tag = "MoveUp" -> move_up_unchecked(ns, AsU32(diff.i), checks)

insert(ns, position, element) == Returned(store_insert(ns, position, element), None)

remove(ns, position) == Returned(store_remove(ns, position), None)

get(ns, index) ==
  LET o == store_item(ns, index)
  IN  IF o = None THEN Panic(ns) ELSE Returned(ns, Some(o[1]))

len(ns) == AsUsize(store_n_items(ns))

\* iter() on a store nobody mutates meanwhile: get(0), ..., get(count - 1)
RECURSIVE iter_from(_, _, _)
iter_from(ns, i, count) ==
  IF i >= count THEN <<>>
  ELSE LET g == get(ns, U32(i))
       IN  IF g.outcome = "panic" THEN <<>>
           ELSE <<g.ret[1]>> \o iter_from(ns, i + 1, count)

iter(ns) == iter_from(ns, 0, ToNat(store_n_items(ns)))

\* --------------------------------------------- strong and weak handles
\* The native object is reference counted: it is finalized, and its weak
\* references cleared, when the strong count reaches zero.

\* Clone for ListStore: store.clone() takes one more strong reference
clone(rc) == rc + 1

\* a weak handle that holds a strong reference
downgrade_strong(rc) == rc + 1

\* Downgrade for ListStore: a weak reference takes no strong reference
downgrade(rc) == rc

\* Upgrade for WeakListStore: Some(strong store) while the object is alive
upgrade(rc) ==
  IF rc > 0 THEN [ret |-> Some("store"), rc |-> rc + 1]
  ELSE [ret |-> None, rc |-> rc]

\* dropping a ListStore releases its strong reference
drop_store(rc) == rc - 1

\* ------------------------------------------------------------- the state
NoIndex == U32(0)

NoCall ==
  [op |-> "idle", tag |-> "-", xs |-> <<>>, index |-> NoIndex,
   uindex |-> AsUsize(NoIndex), elem |-> 0, pre |-> <<>>, owners |-> 0,
   outcome |-> "returned", notes |-> <<>>, ret |-> None]

NoIter == [status |-> "none", next |-> U32(0), count |-> U32(0), last |-> None]

Init ==
  /\ items = <<>>
  /\ refcount = 1
  /\ nStrong = 1
  /\ nWeak = 0
  /\ overflow_checks \in BOOLEAN
  /\ fatal_criticals \in BOOLEAN
  /\ call = NoCall
  /\ it = NoIter

\* ---------------------------------------------------------------- inputs
InSeqs == UNION {[1..n -> Elem] : n \in 0..MaxIn}

U32Inputs == {U32(k) : k \in SmallIdx} \cup {U32Max}

UsizeInputs ==
  {AsUsize(x) : x \in U32Inputs}
    \cup {[hi |-> U32(1), lo |-> U32(k)] : k \in SmallIdx}
    \cup {[hi |-> U32Max, lo |-> U32Max]}

Diffs ==
  {[tag |-> t, elements |-> xs, i |-> AsUsize(NoIndex)] :
      t \in {"Set", "Append"}, xs \in InSeqs}
    \cup {[tag |-> t, elements |-> <<>>, i |-> i] :
      t \in {"MoveUp", "MoveDown"}, i \in UsizeInputs}

\* --------------------------------------------------------------- actions
\* the process is alive: no call has panicked or aborted
Running == call.outcome = "returned" /\ it.status # "panic"

\* the caller is between two calls on the collection's handles
Idle == Running /\ call.op = "idle"

\* the iterator holds a shared borrow of the store it was made from
Borrowed == it.status \in {"active", "done"}

\* some strong store can be borrowed mutably (not the one the iterator borrows,
\* which stays borrowed for as long as the iterator is kept)
CanMutate == Idle /\ nStrong >= (IF Borrowed THEN 2 ELSE 1)

CanRead == Idle /\ nStrong >= 1

Native == [items |-> items, notes |-> <<>>, crit |-> FALSE]

Outcome(r) == IF r.ns.crit /\ fatal_criticals THEN "abort" ELSE r.outcome

\* a call on the store with result r; c carries the call's arguments
Finish(c, r) ==
  /\ Len(r.ns.items) <= MaxLen
  /\ items' = r.ns.items
  /\ call' = [c EXCEPT !.pre = items, !.owners = nStrong, !.outcome = Outcome(r),
                       !.notes = r.ns.notes, !.ret = r.ret]
  /\ UNCHANGED <<refcount, nStrong, nWeak, overflow_checks, fatal_criticals, it>>

Update ==
  /\ CanMutate
  /\ \E diff \in Diffs :
       Finish([NoCall EXCEPT !.op = "update", !.tag = diff.tag,
                             !.xs = diff.elements, !.uindex = diff.i],
              update(Native, diff, overflow_checks))

Extend ==
  /\ CanMutate
  /\ \E xs \in InSeqs :
       Finish([NoCall EXCEPT !.op = "extend", !.xs = xs], extend(Native, xs))

ReplaceAll ==
  /\ CanMutate
  /\ \E xs \in InSeqs :
       Finish([NoCall EXCEPT !.op = "replace_all", !.xs = xs], replace_all(Native, xs))

MoveUp ==
  /\ CanMutate
  /\ \E index \in U32Inputs :
       Finish([NoCall EXCEPT !.op = "move_up_unchecked", !.index = index],
              move_up_unchecked(Native, index, overflow_checks))

MoveDown ==
  /\ CanMutate
  /\ \E index \in U32Inputs :
       Finish([NoCall EXCEPT !.op = "move_down_unchecked", !.index = index],
              move_down_unchecked(Native, index, overflow_checks))

Insert ==
  /\ CanMutate
  /\ \E position \in U32Inputs, e \in Elem :
       Finish([NoCall EXCEPT !.op = "insert", !.index = position, !.elem = e],
              insert(Native, position, e))

Remove ==
  /\ CanMutate
  /\ \E position \in U32Inputs :
       Finish([NoCall EXCEPT !.op = "remove", !.index = position],
              remove(Native, position))

Get ==
  /\ CanRead
  /\ \E index \in U32Inputs :
       Finish([NoCall EXCEPT !.op = "get", !.index = index], get(Native, index))

\* a handle operation: the contents stay, the counts change
Handle(op, ret, rc, strong, weak) ==
  /\ refcount' = rc
  /\ nStrong' = strong
  /\ nWeak' = weak
  /\ items' = IF rc = 0 THEN <<>> ELSE items
  /\ call' = [NoCall EXCEPT !.op = op, !.pre = items, !.owners = nStrong, !.ret = ret]
  /\ UNCHANGED <<overflow_checks, fatal_criticals, it>>

Clone ==
  /\ CanRead
  /\ nStrong < MaxHandles
  /\ Handle("clone", None, clone(refcount), nStrong + 1, nWeak)

Downgrade ==
  /\ CanRead
  /\ nWeak < MaxHandles
  /\ Handle("downgrade", None, downgrade(refcount), nStrong, nWeak + 1)

Upgrade ==
  /\ Idle
  /\ nWeak >= 1
  /\ LET u == upgrade(refcount)
     IN  /\ u.ret # None => nStrong < MaxHandles
         /\ Handle("upgrade", u.ret, u.rc,
                   IF u.ret = None THEN nStrong ELSE nStrong + 1, nWeak)

DropStrong ==
  /\ CanMutate
  /\ Handle("drop", None, drop_store(refcount), nStrong - 1, nWeak)

DropWeak ==
  /\ Idle
  /\ nWeak >= 1
  /\ Handle("drop_weak", None, refcount, nStrong, nWeak - 1)

\* iter(): count = store.n_items(); (0..count).map(|i| self.get(i))
IterStart ==
  /\ CanRead
  /\ it.status = "none"
  /\ it' = [status |-> "active", next |-> U32(0), count |-> store_n_items(Native),
            last |-> None]
  /\ UNCHANGED <<items, refcount, nStrong, nWeak, overflow_checks, fatal_criticals, call>>

\* one next() of the iterator: the range yields i while i < count, then get(i)
IterNext ==
  /\ Idle
  /\ it.status = "active"
  /\ IF Lt32(it.next, it.count)
     THEN LET g == get(Native, it.next)
          IN  it' = IF g.outcome = "panic"
                    THEN [it EXCEPT !.status = "panic", !.last = None]
                    ELSE [it EXCEPT !.next = Add32(it.next, U32(1)).val, !.last = g.ret]
     ELSE it' = [it EXCEPT !.status = "done", !.last = None]
  /\ UNCHANGED <<items, refcount, nStrong, nWeak, overflow_checks, fatal_criticals, call>>

\* a call that returned normally gives control back to its caller
Return ==
  /\ Running
  /\ call.op # "idle"
  /\ call' = NoCall
  /\ UNCHANGED <<items, refcount, nStrong, nWeak, overflow_checks, fatal_criticals, it>>

\* the store used through one handle
Next ==
  \/ Return
  \/ Update \/ Extend \/ ReplaceAll \/ MoveUp \/ MoveDown
  \/ Insert \/ Remove \/ Get

Spec == Init /\ [][Next]_vars

\* the strong and weak handles of the collection, and its contents
NextRef ==
  \/ Return
  \/ Clone \/ Downgrade \/ Upgrade \/ DropStrong \/ DropWeak
  \/ Insert \/ Remove

SpecRef == Init /\ [][NextRef]_vars

\* one pass of an iterator while another clone mutates the collection
NextIter ==
  \/ Return
  \/ IterStart \/ IterNext \/ Clone
  \/ Extend \/ ReplaceAll \/ Insert \/ Remove \/ MoveUp \/ MoveDown

SpecIter == Init /\ [][NextIter]_vars

TypeOK ==
  /\ items \in Seq(Elem) /\ Len(items) <= MaxLen
  /\ refcount \in 0..MaxHandles
  /\ nStrong \in 0..MaxHandles
  /\ nWeak \in 0..MaxHandles

\* ------------------------------------------------------------ properties
IsSet == call.op = "replace_all" \/ (call.op = "update" /\ call.tag = "Set")

IsAppend == call.op = "extend" \/ (call.op = "update" /\ call.tag = "Append")

\* new is old with the elements at the 1-based positions j and k exchanged
Exchanged(new, old, j, k) ==
  /\ Len(new) = Len(old)
  /\ new[j] = old[k]
  /\ new[k] = old[j]
  /\ \A p \in 1..Len(old) : p \notin {j, k} => new[p] = old[p]

\* C1: after replace_all(xs) or update(Set(xs)), whatever the store held, the
\* call has returned, iter() yields exactly xs in order and len() is the length
\* of xs (so Set([]) leaves len() == 0).
C1_ReplaceAllYieldsXs ==
  IsSet =>
    /\ call.outcome = "returned"
    /\ iter(Native) = call.xs
    /\ len(Native) = AsUsize(U32(Len(call.xs)))

C1_Witness ==
  /\ call.op = "update" /\ call.tag = "Set"
  /\ call.xs = <<>> /\ call.pre # <<>>
  /\ len(Native) = AsUsize(U32(0))

\* C2: after extend(xs) or update(Append(xs)) on contents c the call has
\* returned, the contents are c ++ xs and len() has grown by the length of xs.
C2_ExtendAppends ==
  IsAppend =>
    /\ call.outcome = "returned"
    /\ iter(Native) = call.pre \o call.xs
    /\ len(Native) = AsUsize(U32(Len(call.pre) + Len(call.xs)))

C2_Witness ==
  /\ call.op = "update" /\ call.tag = "Append"
  /\ Len(call.pre) = 3 /\ Len(call.xs) = 1
  /\ len(Native) = AsUsize(U32(4))

\* C3: on a store of length n, move_up_unchecked(i) with 0 < i < n exchanges
\* the elements at i-1 and i, and move_down_unchecked(i) with 0 <= i < n-1
\* exchanges those at i and i+1; every other position and len() are unchanged.
C3_MovesExchangeNeighbours ==
  LET n == Len(call.pre)
      i == ToNat(call.index)
  IN  /\ (call.op = "move_up_unchecked" /\ Lt32(U32(0), call.index)
            /\ Lt32(call.index, U32(n)))
           => /\ call.outcome = "returned"
              /\ Exchanged(iter(Native), call.pre, i, i + 1)
              /\ len(Native) = AsUsize(U32(n))
      /\ (call.op = "move_down_unchecked" /\ Lt32(call.index, U32(n))
            /\ Lt32(Add32(call.index, U32(1)).val, U32(n)))
           => /\ call.outcome = "returned"
              /\ Exchanged(iter(Native), call.pre, i + 1, i + 2)
              /\ len(Native) = AsUsize(U32(n))

C3_Witness ==
  /\ call.op = "move_up_unchecked" /\ call.index = U32(1)
  /\ Len(call.pre) = 3 /\ call.pre[1] # call.pre[2]
  /\ items = <<call.pre[2], call.pre[1], call.pre[3]>>

\* C4: move_up_unchecked(0) never returns normally and never changes the
\* contents or the length, whether 0 - 1 is overflow-checked or wraps.
C4_MoveUpZeroFails ==
  (call.op = "move_up_unchecked" /\ call.index = U32(0)) =>
    /\ call.outcome # "returned"
    /\ items = call.pre
    /\ call.notes = <<>>

C4_Witness ==
  /\ call.op = "move_up_unchecked" /\ call.index = U32(0)
  /\ ~overflow_checks
  /\ Len(call.pre) >= 2
  /\ call.outcome = "panic"

C7_OutOfRangeFails ==
  LET n == U32(Len(call.pre))
  IN  (\/ call.op = "insert" /\ Lt32(n, call.index)
       \/ call.op = "remove" /\ ~Lt32(call.index, n)
       \/ call.op = "get" /\ ~Lt32(call.index, n))
        => /\ call.outcome # "returned"
           /\ items = call.pre

\* C8 (as claimed): on a store of length n >= 1, move_down_unchecked(n-1)
\* returns normally, leaves the contents and length unchanged and emits no
\* change notification.
C8_BoundaryMoveReturns ==
  (call.op = "move_down_unchecked" /\ Len(call.pre) >= 1
     /\ call.index = U32(Len(call.pre) - 1)) =>
    /\ call.outcome = "returned"
    /\ items = call.pre
    /\ call.notes = <<>>

\* C8 (amended): on a store of length n >= 1, move_down_unchecked(n-1) leaves
\* the contents and length unchanged and emits no change notification, and it
\* ends in a panic (the unwrap of the None that swap returns).
C8_BoundaryMovePanics ==
  (call.op = "move_down_unchecked" /\ Len(call.pre) >= 1
     /\ call.index = U32(Len(call.pre) - 1)) =>
    /\ call.outcome = "panic"
    /\ items = call.pre
    /\ len(Native) = AsUsize(U32(Len(call.pre)))
    /\ call.notes = <<>>

C8_Witness ==
  /\ call.op = "move_down_unchecked"
  /\ Len(call.pre) = 2
  /\ call.index = U32(1)
  /\ call.outcome = "panic"
  /\ items = call.pre

\* C10 (as claimed): update(MoveUp(i)) with i >= len and update(MoveDown(i))
\* with i + 1 >= len, for every 64-bit i, never change the order of the
\* elements.
C10_InvalidMoveKeepsOrder ==
  LET n == len([items |-> call.pre])
      i == call.uindex
      downValid == /\ i.hi = U32(0)
                   /\ ~Add32(i.lo, U32(1)).overflow
                   /\ Lt32(Add32(i.lo, U32(1)).val, n.lo)
  IN  (call.op = "update" /\ (\/ call.tag = "MoveUp" /\ ~Lt64(i, n)
                              \/ call.tag = "MoveDown" /\ ~downValid))
        => items = call.pre

\* C5: upgrade() returns a strong store exactly when a strong owner was alive
\* at the call; with no strong owner left the collection is destroyed, however
\* many weak references remain, so every later upgrade() returns absent.
C5_UpgradeIffStrongOwner ==
  /\ call.op = "upgrade" => (call.ret # None <=> call.owners > 0)
  /\ nStrong = 0 => refcount = 0 /\ upgrade(refcount).ret = None
  /\ nStrong > 0 => refcount > 0

C5_Witness ==
  /\ call.op = "upgrade"
  /\ call.ret = None
  /\ call.owners = 0
  /\ nWeak >= 1

\* C9 (as claimed): an iteration started with iter() never ends in a fatal
\* error, whatever another clone does to the collection between two accesses.
C9_IterationNeverFails == it.status # "panic"

====
